---- MODULE Spec2Model ----
\* Execution-isolation core of ComfyUI-PyIsolated (src/execution_wrapper.py):
\* dependency fingerprinting, environment provisioning, the in-process
\* installer with its package cache, and the two execution modes
\* (run_code_safe: subprocess driver; run_code_direct: in-process exec).
\*
\* Text is a sequence of string fragments (a character, a printed token or a
\* literal of an f-string); concatenation is \o.  A Python value is a record
\* [t |-> type tag, s |-> its text].
EXTENDS Integers, Sequences, FiniteSets, TLC

VARIABLES
    venvs,                \* directories under the venv root: name -> specifiers installed in it
    installed_packages,   \* _installed_packages, the process-wide cache (line 17)
    importable,           \* base names importlib.util.find_spec resolves in the host interpreter
    sys_stdout,           \* the process-global sys.stdout: "orig" or the owner of a StringIO
    bufs,                 \* contents of each caller's StringIO capture buffer
    tempfiles,            \* temp files on disk: <<caller, "code" | "inputs">>
    serial,               \* TRUE: the host runs one request at a time
    ensured,              \* history: the paths ensure_venv has returned so far
    call                  \* per caller: position in its handler, locals, outcome

vars == <<venvs, installed_packages, importable, sys_stdout, bufs, tempfiles, serial, ensured, call>>

----------------------------------------------------------------------------
\* Bounds and universes

MaxDeps == 2        \* longest dependency list of a request
MaxCodeLen == 2     \* longest user code, in statements

\* the host's requests, in the order it takes them up
Queue == <<"p1", "p2">>
Procs == {Queue[i] : i \in 1..Len(Queue)}

\* package specifiers, as character sequences: "ab" and "Cd>=1"
SpecAb == <<"a", "b">>
SpecCd == <<"C", "d", ">", "=", "1">>
DepUniverse == {SpecAb, SpecCd}

RECURSIVE SeqsUpTo(_, _)
SeqsUpTo(S, n) ==
    IF n = 0 THEN {<<>>}
    ELSE LET shorter == SeqsUpTo(S, n - 1)
         IN  shorter \cup {Append(s, x) : s \in {t \in shorter : Len(t) = n - 1}, x \in S}

DepLists == SeqsUpTo(DepUniverse, MaxDeps)

\* run_code_direct also meets a specifier with a qualifier its split chain
\* does not cut at: "ab>1"
SpecAbGt == <<"a", "b", ">", "1">>
DirectDepLists == DepLists \cup {<<SpecAbGt>>, <<SpecAb, SpecAbGt>>}

\* Python values
StrVal(text) == [t |-> "str", s |-> text]
IntVal(text) == [t |-> "int", s |-> text]
ObjVal(text) == [t |-> "obj", s |-> text]
FloatVal(text) == [t |-> "float", s |-> text]
BoolVal(text) == [t |-> "bool", s |-> text]
ListVal(items) == [t |-> "list", s |-> items]      \* the items, each in its literal form
MapVal(pairs) == [t |-> "map", s |-> pairs]        \* string keys and literal values in turn

\* statements of user code
Stmts ==
    { [op |-> "print", arg |-> StrVal(<<"hi\n">>)],     \* print("hi")
      [op |-> "bind",  arg |-> IntVal(<<"2">>)],        \* result = 1 + 1
      [op |-> "raise", arg |-> StrVal(<<"boom">>)],     \* raise ValueError("boom")
      [op |-> "exit",  arg |-> StrVal(<<>>)] }          \* sys.exit()

Codes == SeqsUpTo(Stmts, MaxCodeLen)

\* input bindings: a map from names to values; a tensor is not JSON-serializable
NoInputs == [n \in {} |-> StrVal(<<>>)]
TextInputs == [n \in {"input_text"} |-> StrVal(<<"World">>)]
TensorInputs == [n \in {"image_payload"} |-> ObjVal(<<"<tensor>">>)]
\* bindings of every kind the wire format carries
RichInputs ==
    [n \in {"input_text", "count", "scale", "flag", "items", "opts"} |->
       CASE n = "input_text" -> TextInputs[n]
         [] n = "count"      -> IntVal(<<"3">>)
         [] n = "scale"      -> FloatVal(<<"1", ".", "5">>)
         [] n = "flag"       -> BoolVal(<<"True">>)
         [] n = "items"      -> ListVal(<<"1", "'a'">>)
         [] n = "opts"       -> MapVal(<<"'k'", "1">>)]
InputMaps == {RichInputs, TensorInputs}

----------------------------------------------------------------------------
\* Characters

CharCode(c) ==
    CASE c = "\n" -> 10 [] c = " " -> 32 [] c = "#" -> 35 [] c = "1" -> 49
      [] c = "<" -> 60 [] c = "=" -> 61 [] c = ">" -> 62
      [] c = "A" -> 65 [] c = "B" -> 66 [] c = "C" -> 67 [] c = "D" -> 68
      [] c = "[" -> 91 [] c = "]" -> 93
      [] c = "a" -> 97 [] c = "b" -> 98 [] c = "c" -> 99 [] c = "d" -> 100
      [] OTHER -> 63

LowerChar(c) ==
    CASE c = "A" -> "a" [] c = "B" -> "b" [] c = "C" -> "c" [] c = "D" -> "d"
      [] OTHER -> c

\* str.lower()
Lower(s) == [i \in 1..Len(s) |-> LowerChar(s[i])]

\* str.split(d)[0]: the text before the first occurrence of d
SplitHead(s, d) ==
    LET at == {i \in 1..(Len(s) - Len(d) + 1) : SubSeq(s, i, i + Len(d) - 1) = d}
    IN  IF at = {} THEN s
        ELSE SubSeq(s, 1, (CHOOSE i \in at : \A j \in at : i <= j) - 1)

\* str.strip()
Strip(s) ==
    LET keep == {i \in 1..Len(s) : s[i] \notin {" ", "\n"}}
    IN  IF keep = {} THEN <<>>
        ELSE SubSeq(s, CHOOSE i \in keep : \A j \in keep : i <= j,
                       CHOOSE i \in keep : \A j \in keep : i >= j)

\* the base name of a specifier (lines 21 and 274)
BaseName(dep) ==
    Strip(SplitHead(SplitHead(SplitHead(SplitHead(dep, <<">", "=">>), <<"=", "=">>), <<"<">>), <<"[">>))

----------------------------------------------------------------------------
\* Dependency fingerprinting (get_venv_name)

\* Python's string order: by code point, a proper prefix first
StrLess(a, b) ==
    LET n == IF Len(a) < Len(b) THEN Len(a) ELSE Len(b)
        diff == {i \in 1..n : a[i] # b[i]}
    IN  IF diff = {} THEN Len(a) < Len(b)
        ELSE LET k == CHOOSE i \in diff : \A j \in diff : i <= j
             IN  CharCode(a[k]) < CharCode(b[k])

RECURSIVE InsertSorted(_, _)
InsertSorted(x, s) ==
    IF s = <<>> THEN <<x>>
    ELSE IF StrLess(Head(s), x) THEN <<Head(s)>> \o InsertSorted(x, Tail(s))
    ELSE <<x>> \o s

\* a slip of the fingerprint: the list is hashed in the order given
Unsorted(s) == s

\* sorted(dependencies) (line 39)
RECURSIVE Sorted(_)
Sorted(s) == IF s = <<>> THEN <<>> ELSE InsertSorted(Head(s), Sorted(Tail(s)))

\* "\n".join(deps_sorted) (line 40)
RECURSIVE JoinLines(_)
JoinLines(s) ==
    IF s = <<>> THEN <<>>
    ELSE IF Len(s) = 1 THEN Head(s)
    ELSE Head(s) \o <<"\n">> \o JoinLines(Tail(s))

\* hashlib.sha256(...).hexdigest()[:8] (line 43): a 32-bit digest, eight
\* hexadecimal digits.  SHA-256 is stood in for by a two-lane 16-bit
\* polynomial hash of the code points.
HashWidth == 65536

RECURSIVE HashFrom(_, _, _, _)
HashFrom(s, i, hi, lo) ==
    IF i > Len(s) THEN <<hi, lo>>
    ELSE HashFrom(s, i + 1,
                  (hi * 37 + CharCode(s[i]) + lo) % HashWidth,
                  (lo * 31 + CharCode(s[i])) % HashWidth)

HexDigit(n) ==
    <<"0", "1", "2", "3", "4", "5", "6", "7", "8", "9", "a", "b", "c", "d", "e", "f">>[n + 1]

Hex4(n) ==
    <<HexDigit((n \div 4096) % 16), HexDigit((n \div 256) % 16),
      HexDigit((n \div 16) % 16), HexDigit(n % 16)>>

HexDigest8(s) ==
    LET h == HashFrom(s, 1, 7, 5381) IN Hex4(h[1]) \o Hex4(h[2])

DefaultVenv == <<"ComfyUI-PyIsolated">>

\* a slip of the fingerprint: the empty list is hashed like any other
get_venv_name_hashed(dependencies) ==
    <<"PyIsolated_">> \o HexDigest8(JoinLines(Sorted(dependencies)))

\* get_venv_name (lines 34-45)
get_venv_name(dependencies) ==
    IF dependencies = <<>> THEN DefaultVenv
    ELSE <<"PyIsolated_">> \o HexDigest8(JoinLines(Sorted(dependencies)))

----------------------------------------------------------------------------
\* Execution of user code: exec(code, namespace)

NoExec == [out |-> <<>>, bound |-> FALSE, result |-> StrVal(<<>>), end |-> "ok", msg |-> <<>>]

\* one statement; out is what the code writes to sys.stdout
ExecStmt(st, c) ==
    CASE c.op = "print" -> [st EXCEPT !.out = @ \o c.arg.s]
      [] c.op = "bind"  -> [st EXCEPT !.bound = TRUE, !.result = c.arg]
      [] c.op = "raise" -> [st EXCEPT !.end = "exception", !.msg = c.arg.s]
      [] c.op = "exit"  -> [st EXCEPT !.end = "exit"]

RECURSIVE ExecFrom(_, _, _)
ExecFrom(code, i, st) ==
    IF i > Len(code) \/ st.end # "ok" THEN st
    ELSE ExecFrom(code, i + 1, ExecStmt(st, code[i]))

Exec(code) == ExecFrom(code, 1, NoExec)

\* a slip of the lookup: no default, so an unbound result reads as None
GetResultNone(st) == IF st.bound THEN st.result ELSE [t |-> "none", s |-> <<"None">>]

\* namespace.get("result", "") (lines 171 and 297)
GetResult(st) == IF st.bound THEN st.result ELSE StrVal(<<>>)

\* str(x)
PyStr(v) == StrVal(v.s)

\* literals of the diagnostics
ErrPrefix == "Error: "
VenvErrPrefix == "Venv creation error: "
InstallErrPrefix == "Error installing "
TimeoutText == "Execution timeout (30s)"
CalledProcessErrorText == "Command returned non-zero exit status 1."
PipStderr == "ERROR: No matching distribution found"
SpawnErrorText == "[Errno 2] No such file or directory"
JsonExpectingValue == "Expecting value: line 1 column 1 (char 0)"
JsonExtraData == "Extra data: line 2 column 1"

----------------------------------------------------------------------------
\* Transport codec: JSON over the child's standard output

NoObj == [result |-> StrVal(<<>>), stdout |-> <<>>, exit_code |-> 0]
RawChunk(text) == [kind |-> "raw", text |-> text, obj |-> NoObj]

\* print(json.dumps(output)) (lines 183-184): one line on the real stdout
JsonLine(obj) == [kind |-> "json", text |-> <<>>, obj |-> obj]

\* the characters of the child's standard output
RECURSIVE RawText(_)
RawText(chunks) ==
    IF chunks = <<>> THEN <<>>
    ELSE LET c == Head(chunks)
         IN  (IF c.kind = "raw" THEN c.text
              ELSE <<"{">> \o c.obj.result.s \o <<"|">> \o c.obj.stdout
                     \o <<"|", IF c.obj.exit_code = 0 THEN "0" ELSE "1", "}\n">>)
             \o RawText(Tail(chunks))

\* json.loads(proc.stdout) (line 198): the whole text must be one document
JsonLoads(chunks) ==
    IF chunks = <<>> THEN [ok |-> FALSE, obj |-> NoObj, msg |-> JsonExpectingValue]
    ELSE IF chunks[1].kind # "json" THEN [ok |-> FALSE, obj |-> NoObj, msg |-> JsonExpectingValue]
    ELSE IF Len(chunks) > 1 THEN [ok |-> FALSE, obj |-> NoObj, msg |-> JsonExtraData]
    ELSE [ok |-> TRUE, obj |-> chunks[1].obj, msg |-> ""]

\* json.dump(inputs, f) (line 141) raises TypeError on a value with no JSON form
JsonKinds == {"str", "int", "float", "bool", "list", "tuple", "map"}
Serializable(inputs) == \A n \in DOMAIN inputs : inputs[n].t \in JsonKinds

\* json.dump of one value (line 141): its JSON form
JsonDumpValue(v) ==
    [w |-> CASE v.t = "str" -> "string"
             [] v.t \in {"int", "float"} -> "number"
             [] v.t = "bool" -> "literal"
             [] v.t \in {"list", "tuple"} -> "array"
             [] v.t = "map" -> "object",
     s |-> v.s]

\* a decoder that reads true and false as numbers
JsonLoadValueBoolAsInt(j) ==
    [t |-> CASE j.w = "string" -> "str"
             [] j.w = "number" -> "int"
             [] j.w = "literal" -> "int"
             [] j.w = "array" -> "list"
             [] j.w = "object" -> "map",
     s |-> j.s]

\* json.load of one value (line 151): the Python value of a JSON form
JsonLoadValue(j) ==
    [t |-> CASE j.w = "string" -> "str"
             [] j.w = "number" -> (IF \E i \in 1..Len(j.s) : j.s[i] = "." THEN "float" ELSE "int")
             [] j.w = "literal" -> "bool"
             [] j.w = "array" -> "list"
             [] j.w = "object" -> "map",
     s |-> j.s]

\* the inputs file written by the parent and read by the child (lines 140-142, 150-151)
JsonRoundTrip(inputs) == [n \in DOMAIN inputs |-> JsonLoadValue(JsonDumpValue(inputs[n]))]

\* namespace = inputs.copy(); namespace["__builtins__"] = __builtins__
\* (lines 161-162 and 289-291)
Namespace(inputs) ==
    [n \in DOMAIN inputs \cup {"__builtins__"} |->
       IF n = "__builtins__" THEN ObjVal(<<"<builtins>">>) ELSE inputs[n]]

----------------------------------------------------------------------------
\* The generated driver program (wrapper_script, lines 145-185)

\* a slip of the driver: standard output is not redirected
DriverPrintsToRealStdout == "real"

\* where the user code's prints land: sys.stdout = stdout_capture (line 157)
DriverPrintTarget == "capture"

\* the except clause of the driver (line 173): Exception, not SystemExit
DriverCatches(end) == end = "exception"

\* str(result) in the output object (line 183)
DriverResultText(v) == PyStr(v)

\* the child's standard output and standard error
Driver(code, inputs) ==
    LET st == Exec(code)
        captured == IF DriverPrintTarget = "capture" THEN st.out ELSE <<>>
        leaked == IF DriverPrintTarget = "capture" \/ st.out = <<>> THEN <<>>
                  ELSE <<RawChunk(st.out)>>
        result == IF st.end = "ok" THEN GetResult(st) ELSE StrVal(<<ErrPrefix>> \o st.msg)
        exit_code == IF st.end = "ok" THEN 0 ELSE 1
        line == JsonLine([result |-> DriverResultText(result),
                          stdout |-> captured, exit_code |-> exit_code])
    IN  [stdout |-> leaked \o (IF st.end = "ok" \/ DriverCatches(st.end) THEN <<line>> ELSE <<>>),
         stderr |-> <<>>]

NoProc == [stdout |-> <<>>, stderr |-> <<>>]

\* a child that died in native code: text on both streams, no response line
CrashText == "Fatal Python error: Segmentation fault"
CrashedProc == [stdout |-> <<RawChunk(<<"loading\n">>)>>, stderr |-> <<CrashText>>]

----------------------------------------------------------------------------
\* Outcomes

NoOutcome == [kind |-> "none", result |-> StrVal(<<>>), stdout |-> <<>>, exit_code |-> 0, exc |-> ""]
Returned(result, stdout, exit_code) ==
    [kind |-> "returned", result |-> result, stdout |-> stdout, exit_code |-> exit_code, exc |-> ""]
Raised(exc) ==
    [kind |-> "raised", result |-> StrVal(<<>>), stdout |-> <<>>, exit_code |-> 0, exc |-> exc]

\* a slip of the JSONDecodeError clause: the child's stderr is not looked at
ParseResponseIgnoresStderr(proc) ==
    LET r == JsonLoads(proc.stdout)
    IN  IF r.ok THEN Returned(r.obj.result, r.obj.stdout, r.obj.exit_code)
        ELSE Returned(StrVal(<<ErrPrefix, r.msg>>), RawText(proc.stdout), 1)

\* parsing the child's response (lines 196-204)
ParseResponse(proc) ==
    LET r == JsonLoads(proc.stdout)
    IN  IF r.ok THEN Returned(r.obj.result, r.obj.stdout, r.obj.exit_code)
        ELSE Returned(StrVal(<<ErrPrefix>> \o (IF proc.stderr # <<>> THEN proc.stderr ELSE <<r.msg>>)),
                      RawText(proc.stdout), 1)

----------------------------------------------------------------------------
\* State

IdleCall ==
    [pc |-> "idle", mode |-> "none", deps |-> <<>>, idx |-> 0, venv_name |-> <<>>,
     dependencies_text |-> <<>>,  \* the node's dependencies input, when it came through a node
     venv_path |-> <<>>,          \* the path ensure_venv returned
     code |-> <<>>, inputs |-> NoInputs,
     namespace |-> NoInputs,      \* the namespace the user code ran in
     ensure |-> "none",           \* how ensure_venv ended: "reused", "created", "raised"
     created |-> FALSE,           \* this call ran the create-environment step
     attempts |-> <<>>,           \* installs this call attempted: [dep, ok]
     probes |-> <<>>,             \* dependencies this call looked up: [dep, how]
     files |-> {},                \* temp files this call created
     unlink_failed |-> "none",    \* the os.unlink that failed, if any
     proc |-> NoProc,             \* the child's captured stdout and stderr
     executed |-> FALSE,          \* the user code was started
     fault |-> "none",            \* failure category of this call
     original_stdout |-> "orig",  \* the local original_stdout (line 284)
     entry_stdout |-> "orig",     \* sys.stdout when the call started
     outcome |-> NoOutcome]

ImportableChoices == {{}, {BaseName(SpecAb)}}

InitCommon ==
    /\ venvs = <<>>
    /\ installed_packages = {}
    /\ importable \in ImportableChoices
    /\ sys_stdout = "orig"
    /\ bufs = [p \in Procs |-> <<>>]
    /\ tempfiles = {}
    /\ ensured = {}
    /\ call = [p \in Procs |-> IdleCall]

Init == InitCommon /\ serial = TRUE

InitConc == InitCommon /\ serial = FALSE

\* a request starts; a serial host takes up the next request of its queue
\* when every earlier one has been answered
CanStart(p) ==
    /\ call[p].pc = "idle"
    /\ serial => \A i, j \in 1..Len(Queue) :
                   (Queue[j] = p /\ i < j) => call[Queue[i]].pc = "finished"

----------------------------------------------------------------------------
\* run_code_safe and ensure_venv

\* get_venv_root() (lines 48-60) and venv_root / venv_name (line 78)
VenvRoot == ".pyisolate_venvs"
VenvPath(name) == <<VenvRoot>> \o name

\* a slip of the existence check: an empty environment is taken as absent
VenvExistsNonEmpty(name) == name \in DOMAIN venvs /\ venvs[name] # <<>>

\* venv_path.exists() (line 80)
VenvExists(name) == name \in DOMAIN venvs

\* a slip of run_code_safe: the provisioning error is raised again
ProvisionFailureReraised(e) == Raised("CalledProcessError")

\* the except clause of run_code_safe (lines 239-241)
ProvisionFailure(e) == Returned(StrVal(<<VenvErrPrefix, e>>), <<>>, 1)

\* run_code_safe up to the call of ensure_venv (lines 226-238)
CallSafe(p) ==
    /\ CanStart(p)
    /\ \E d \in DepLists :
         call' = [call EXCEPT ![p] = [@ EXCEPT !.pc = "ensure_check", !.mode = "safe",
                                                !.deps = d, !.venv_name = get_venv_name(d),
                                                !.entry_stdout = sys_stdout]]
    /\ UNCHANGED <<venvs, installed_packages, importable, sys_stdout, bufs, tempfiles, serial, ensured>>

\* ensure_venv: the existence check (lines 78-84)
EnsureCheck(p) ==
    /\ call[p].pc = "ensure_check"
    /\ call' = [call EXCEPT ![p] =
                  IF VenvExists(call[p].venv_name)
                  THEN [@ EXCEPT !.pc = "run", !.ensure = "reused",
                                 !.venv_path = VenvPath(call[p].venv_name)]
                  ELSE [@ EXCEPT !.pc = "ensure_create"]]
    /\ ensured' = IF VenvExists(call[p].venv_name)
                  THEN ensured \cup {VenvPath(call[p].venv_name)} ELSE ensured
    /\ UNCHANGED <<venvs, installed_packages, importable, sys_stdout, bufs, tempfiles, serial>>

\* ensure_venv: mkdir of the root and python -m venv (lines 87-100); a failed
\* creation may or may not leave the directory behind
EnsureCreate(p) ==
    /\ call[p].pc = "ensure_create"
    /\ \E ok \in BOOLEAN, leaves \in BOOLEAN :
         LET name == call[p].venv_name
             kept == IF VenvExists(name) THEN venvs[name] ELSE <<>>
         IN  /\ (ok => leaves)
             /\ venvs' = IF leaves THEN [n \in DOMAIN venvs \cup {name} |->
                                           IF n = name THEN kept ELSE venvs[n]]
                         ELSE venvs
             /\ call' = [call EXCEPT ![p] =
                           IF ~ok
                           THEN [@ EXCEPT !.pc = "done", !.created = TRUE, !.ensure = "raised",
                                          !.fault = "provision",
                                          !.outcome = ProvisionFailure(CalledProcessErrorText)]
                           ELSE IF call[p].deps = <<>>
                           THEN [@ EXCEPT !.pc = "run", !.created = TRUE, !.ensure = "created",
                                          !.venv_path = VenvPath(name)]
                           ELSE [@ EXCEPT !.pc = "ensure_install", !.created = TRUE, !.idx = 1]]
             /\ ensured' = IF ok /\ call[p].deps = <<>> THEN ensured \cup {VenvPath(name)}
                           ELSE ensured
    /\ UNCHANGED <<installed_packages, importable, sys_stdout, bufs, tempfiles, serial>>

\* a slip of the install loop: the failure is logged and the loop goes on
AfterInstallContinues(ok) == "continue"

\* the install loop after pip returns (lines 109-117): go on after a success,
\* re-raise CalledProcessError after a failure
AfterInstall(ok) == IF ok THEN "continue" ELSE "raise"

\* a pip whose failure still leaves the package in the environment
PipInstallLeavesPackage(env, dep, ok) == Append(env, dep)

\* pip install of one dependency into the environment (lines 107-111): the
\* packages of the environment afterwards
PipInstall(env, dep, ok) == IF ok THEN Append(env, dep) ELSE env

\* ensure_venv: one iteration of the install loop (lines 104-124)
EnsureInstall(p) ==
    /\ call[p].pc = "ensure_install"
    /\ \E ok \in BOOLEAN :
         LET name == call[p].venv_name
             dep == call[p].deps[call[p].idx]
             last == call[p].idx = Len(call[p].deps)
             tried == Append(call[p].attempts, [dep |-> dep, ok |-> ok])
         IN  /\ venvs' = IF VenvExists(name)
                         THEN [venvs EXCEPT ![name] = PipInstall(@, dep, ok)]
                         ELSE venvs
             /\ call' = [call EXCEPT ![p] =
                           IF AfterInstall(ok) = "raise"
                           THEN [@ EXCEPT !.pc = "done", !.attempts = tried, !.ensure = "raised",
                                          !.fault = "provision",
                                          !.outcome = ProvisionFailure(CalledProcessErrorText)]
                           ELSE IF last
                           THEN [@ EXCEPT !.pc = "run", !.attempts = tried, !.ensure = "created",
                                          !.venv_path = VenvPath(name)]
                           ELSE [@ EXCEPT !.attempts = tried, !.idx = @ + 1]]
             /\ ensured' = IF AfterInstall(ok) = "continue" /\ last
                           THEN ensured \cup {VenvPath(name)} ELSE ensured
    /\ UNCHANGED <<installed_packages, importable, sys_stdout, bufs, tempfiles, serial>>


\* the finally clause of run_code_in_venv (lines 211-217): both unlinks sit in
\* one try, so a failing first unlink skips the second; gives the files left
Cleanup(files, unlink_failed) ==
    CASE unlink_failed = "none"   -> {}
      [] unlink_failed = "code"   -> files
      [] unlink_failed = "inputs" -> files \ {"code"}

\* a slip of the try block: no clause for the timeout
ChildOutcomeTimeoutEscapes(fate, proc) ==
    CASE fate \in {"runs", "crash"} -> ParseResponse(proc)
      [] fate = "timeout"     -> Raised("TimeoutExpired")
      [] fate = "spawn_error" -> Returned(StrVal(<<ErrPrefix, SpawnErrorText>>), <<>>, 1)

\* the outcome of the try block of run_code_in_venv (lines 187-210)
ChildOutcome(fate, proc) ==
    CASE fate \in {"runs", "crash"} -> ParseResponse(proc)
      [] fate = "timeout"     -> Returned(StrVal(<<ErrPrefix, TimeoutText>>), <<>>, 1)
      [] fate = "spawn_error" -> Returned(StrVal(<<ErrPrefix, SpawnErrorText>>), <<>>, 1)

\* the failure category of a subprocess run
ChildFault(fate, code) ==
    CASE fate = "timeout"     -> "timeout"
      [] fate = "spawn_error" -> "spawn"
      [] fate = "crash"       -> "crash"
      [] fate = "runs"        -> LET e == Exec(code).end
                                 IN  IF e = "exception" THEN "user_exception"
                                     ELSE IF e = "exit" THEN "user_exit" ELSE "none"

\* what the requests of a run carry and what befalls their children; the
\* concurrent host runs one-statement codes whose children answer
ConcCodes == {<<st>> : st \in Stmts}
CodeChoices == IF serial THEN Codes ELSE ConcCodes
InputChoices == IF serial THEN InputMaps ELSE {RichInputs}
FateChoices == IF serial THEN {"runs", "timeout", "spawn_error", "crash"} ELSE {"runs"}
UnlinkChoices == IF serial THEN {"none", "code", "inputs"} ELSE {"none"}

\* run_code_in_venv and the return of run_code_safe (lines 127-217, 245-252).
\* Both temp files are written before the try block: a TypeError of json.dump
\* leaves the function past the finally clause.
RunInVenv(p) ==
    /\ call[p].pc = "run"
    /\ \E c \in CodeChoices, inp \in InputChoices, fate \in FateChoices, unl \in UnlinkChoices :
         LET made == {"code", "inputs"}
             proc == CASE fate = "runs" -> Driver(c, inp)
                       [] fate = "crash" -> CrashedProc
                       [] OTHER -> NoProc
         IN  IF ~Serializable(inp)
             THEN /\ fate = "runs" /\ unl = "none"
                  /\ tempfiles' = tempfiles \cup {<<p, k>> : k \in made}
                  /\ call' = [call EXCEPT ![p] =
                                [@ EXCEPT !.pc = "done", !.code = c, !.inputs = inp,
                                          !.files = made, !.fault = "serialize",
                                          !.outcome = Raised("TypeError")]]
             ELSE /\ tempfiles' = tempfiles \cup {<<p, k>> : k \in Cleanup(made, unl)}
                  /\ call' = [call EXCEPT ![p] =
                                [@ EXCEPT !.pc = "done", !.code = c, !.inputs = inp,
                                          !.files = made, !.unlink_failed = unl,
                                          !.proc = proc,
                                          !.namespace = IF fate = "spawn_error" THEN NoInputs
                                                        ELSE Namespace(JsonRoundTrip(inp)),
                                          !.executed = (fate # "spawn_error"),
                                          !.fault = ChildFault(fate, c),
                                          !.outcome = ChildOutcome(fate, proc)]]
    /\ UNCHANGED <<venvs, installed_packages, importable, sys_stdout, bufs, serial, ensured>>

----------------------------------------------------------------------------
\* run_code_direct

\* a slip of the probe: the result of find_spec is not tested
IsPackageInstalledUntested(dep) ==
    IF Lower(BaseName(dep)) \in installed_packages THEN "cached" ELSE "found"

\* _is_package_installed (lines 20-31): "cached", "found" by the import
\* machinery (and then cached), or "missing"
IsPackageInstalled(dep) ==
    LET base_name == BaseName(dep)
    IN  IF Lower(base_name) \in installed_packages THEN "cached"
        ELSE IF base_name \in importable THEN "found"
        ELSE "missing"

\* a slip of the cache update: the set is assigned, not added to
CacheAssign(cache, base) == {base}

\* _installed_packages.add(...) (lines 28 and 275)
CacheAdd(cache, base) == cache \cup {base}

\* the except clause of the install loop (lines 278-281)
InstallFailure(dep) == Returned(StrVal(<<InstallErrPrefix>> \o dep \o <<": ", PipStderr>>), <<>>, 1)

\* a slip of the dependency loop: the failure is reported and the loop goes on
DirectAfterInstallContinues(ok) == "continue"

\* the dependency loop after pip returns (lines 267-281): cache the name and
\* go on after a success, return the failure outcome after a failure
DirectAfterInstall(ok) == IF ok THEN "continue" ELSE "return"

\* run_code_direct up to the dependency loop (lines 255-257)
CallDirect(p) ==
    /\ CanStart(p)
    /\ \E d \in DirectDepLists :
         call' = [call EXCEPT ![p] =
                    [@ EXCEPT !.pc = IF d = <<>> THEN "direct_save" ELSE "direct_dep",
                              !.mode = "direct", !.deps = d, !.idx = 1,
                              !.entry_stdout = sys_stdout]]
    /\ UNCHANGED <<venvs, installed_packages, importable, sys_stdout, bufs, tempfiles, serial, ensured>>

\* one iteration of the dependency loop (lines 257-281)
DirectDep(p) ==
    /\ call[p].pc = "direct_dep"
    /\ LET dep == call[p].deps[call[p].idx]
           how == IsPackageInstalled(dep)
           base == Lower(BaseName(dep))
           seen == Append(call[p].probes, [dep |-> dep, how |-> how])
           next == IF call[p].idx = Len(call[p].deps) THEN "direct_save" ELSE "direct_dep"
       IN  IF how # "missing"
           THEN /\ installed_packages' = IF how = "found" THEN CacheAdd(installed_packages, base)
                                         ELSE installed_packages
                /\ call' = [call EXCEPT ![p] = [@ EXCEPT !.pc = next, !.probes = seen, !.idx = @ + 1]]
           ELSE \E ok \in BOOLEAN :
                  LET tried == Append(call[p].attempts, [dep |-> dep, ok |-> ok])
                  IN  /\ installed_packages' = IF ok THEN CacheAdd(installed_packages, base)
                                               ELSE installed_packages
                      /\ call' = [call EXCEPT ![p] =
                                    IF DirectAfterInstall(ok) = "continue"
                                    THEN [@ EXCEPT !.pc = next, !.probes = seen,
                                                   !.attempts = tried, !.idx = @ + 1]
                                    ELSE [@ EXCEPT !.pc = "done", !.probes = seen,
                                                   !.attempts = tried, !.fault = "install",
                                                   !.outcome = InstallFailure(dep)]]
    /\ UNCHANGED <<venvs, importable, sys_stdout, bufs, tempfiles, serial, ensured>>

\* stdout_capture = StringIO(); original_stdout = sys.stdout (lines 283-284)
DirectSave(p) ==
    /\ call[p].pc = "direct_save"
    /\ bufs' = [bufs EXCEPT ![p] = <<>>]
    /\ call' = [call EXCEPT ![p] = [@ EXCEPT !.pc = "direct_redirect", !.original_stdout = sys_stdout]]
    /\ UNCHANGED <<venvs, installed_packages, importable, sys_stdout, tempfiles, serial, ensured>>

\* sys.stdout = stdout_capture (line 287)
DirectRedirect(p) ==
    /\ call[p].pc = "direct_redirect"
    /\ sys_stdout' = p
    /\ call' = [call EXCEPT ![p] = [@ EXCEPT !.pc = "direct_exec"]]
    /\ UNCHANGED <<venvs, installed_packages, importable, bufs, tempfiles, serial, ensured>>

\* the except clause of run_code_direct (line 301): Exception, not SystemExit
DirectCatches(end) == end = "exception"

\* a slip of the except clause: the diagnostic is the bare exception message
DirectOutcomeBareMessage(st, captured) ==
    IF st.end = "ok" THEN Returned(GetResult(st), captured, 0)
    ELSE IF DirectCatches(st.end) THEN Returned(StrVal(st.msg), captured, 1)
    ELSE Raised("SystemExit")

\* a slip of the except clause: the captured output is not handed back
DirectOutcomeDropsOutput(st, captured) ==
    IF st.end = "ok" THEN Returned(GetResult(st), captured, 0)
    ELSE IF DirectCatches(st.end) THEN Returned(StrVal(<<ErrPrefix>> \o st.msg), <<>>, 1)
    ELSE Raised("SystemExit")

\* the value run_code_direct is about to return or raise (lines 297-304)
DirectOutcome(st, captured) ==
    IF st.end = "ok" THEN Returned(GetResult(st), captured, 0)
    ELSE IF DirectCatches(st.end) THEN Returned(StrVal(<<ErrPrefix>> \o st.msg), captured, 1)
    ELSE Raised("SystemExit")

\* the body of the try block (lines 290-304): the code's prints go to whatever
\* sys.stdout is at that moment
DirectExec(p) ==
    /\ call[p].pc = "direct_exec"
    /\ \E c \in CodeChoices, inp \in InputChoices :
         LET st == Exec(c)
             written == IF sys_stdout \in Procs
                        THEN [bufs EXCEPT ![sys_stdout] = @ \o st.out]
                        ELSE bufs
         IN  /\ bufs' = written
             /\ call' = [call EXCEPT ![p] =
                           [@ EXCEPT !.pc = "direct_restore", !.code = c, !.inputs = inp,
                                     !.namespace = Namespace(inp),
                                     !.executed = TRUE,
                                     !.fault = IF st.end = "exception" THEN "user_exception"
                                               ELSE IF st.end = "exit" THEN "user_exit"
                                               ELSE "none",
                                     !.outcome = DirectOutcome(st, written[p])]]
    /\ UNCHANGED <<venvs, installed_packages, importable, sys_stdout, tempfiles, serial, ensured>>

\* a slip of the finally clause: sys.stdout is left as it is
StreamLeftInPlace(p) == sys_stdout

\* another finally clause: the interpreter's own stream is put back
\* (sys.stdout = sys.__stdout__), not the one saved at line 284
StreamOfInterpreter(p) == "orig"

\* the stream the finally clause puts back (line 306)
RestoredStream(p) == call[p].original_stdout

\* the finally clause: sys.stdout = original_stdout (line 306), then the
\* call returns or re-raises
DirectRestore(p) ==
    /\ call[p].pc = "direct_restore"
    /\ sys_stdout' = RestoredStream(p)
    /\ call' = [call EXCEPT ![p] = [@ EXCEPT !.pc = "done"]]
    /\ UNCHANGED <<venvs, installed_packages, importable, bufs, tempfiles, serial, ensured>>

----------------------------------------------------------------------------
----------------------------------------------------------------------------
\* The node layer: the dependencies text of a node becomes the list the core gets

MaxTextLen == 4
TextChars == {"a", " ", "#", "\n"}
DepTexts == SeqsUpTo(TextChars, MaxTextLen)

\* dependencies.split("\n")
RECURSIVE SplitLines(_)
SplitLines(text) ==
    LET at == {i \in 1..Len(text) : text[i] = "\n"}
    IN  IF at = {} THEN <<text>>
        ELSE LET k == CHOOSE i \in at : \A j \in at : i <= j
             IN  <<SubSeq(text, 1, k - 1)>> \o SplitLines(SubSeq(text, k + 1, Len(text)))

\* the filter of the comprehension: line.strip() and not line.strip().startswith("#")
KeptLine(line) == Strip(line) # <<>> /\ Head(Strip(line)) # "#"

\* a comprehension that keeps the lines as they are
NodeDepsVerbatim(text) == SelectSeq(SplitLines(text), KeptLine)

\* deps = [line.strip() for line in dependencies.split("\n") if ...]
\* (src/__init__.py line 52, src/nodes.py lines 129-133)
NodeDeps(text) ==
    LET kept == SelectSeq(SplitLines(text), KeptLine)
    IN  [i \in 1..Len(kept) |-> Strip(kept[i])]

\* PyIsolatedExecuteV1.execute (src/__init__.py lines 51-59): parse the text,
\* call run_code_safe
NodeExecuteV1(p) ==
    /\ CanStart(p)
    /\ \E text \in DepTexts :
         LET d == NodeDeps(text)
         IN  call' = [call EXCEPT ![p] =
                        [@ EXCEPT !.pc = "ensure_check", !.mode = "safe", !.dependencies_text = text,
                                  !.deps = d, !.venv_name = get_venv_name(d),
                                  !.entry_stdout = sys_stdout]]
    /\ UNCHANGED <<venvs, installed_packages, importable, sys_stdout, bufs, tempfiles, serial, ensured>>

\* PyIsolatedExecuteAdvancedV3.execute (src/nodes.py lines 129-147): parse the
\* text, call run_code_direct
NodeExecuteV3(p) ==
    /\ CanStart(p)
    /\ \E text \in DepTexts :
         LET d == NodeDeps(text)
         IN  call' = [call EXCEPT ![p] =
                        [@ EXCEPT !.pc = IF d = <<>> THEN "direct_save" ELSE "direct_dep",
                                  !.mode = "direct", !.dependencies_text = text,
                                  !.deps = d, !.idx = 1,
                                  !.entry_stdout = sys_stdout]]
    /\ UNCHANGED <<venvs, installed_packages, importable, sys_stdout, bufs, tempfiles, serial, ensured>>

\* the capture buffer of a call is still referred to: it is the process's
\* standard output or the stream another call saved at line 284
Referenced(p) ==
    \/ sys_stdout = p
    \/ \E q \in Procs \ {p} : call[q].original_stdout = p

\* The node layer takes the outcome; the call's locals are gone, and so is its
\* capture buffer unless something still refers to it
Return(p) ==
    /\ call[p].pc = "done"
    /\ call' = [call EXCEPT ![p] = [IdleCall EXCEPT !.pc = "finished"]]
    /\ bufs' = IF Referenced(p) THEN bufs ELSE [bufs EXCEPT ![p] = <<>>]
    /\ UNCHANGED <<venvs, installed_packages, importable, sys_stdout, tempfiles, serial, ensured>>

Next ==
    \/ \E p \in Procs : CallSafe(p)
    \/ \E p \in Procs : EnsureCheck(p)
    \/ \E p \in Procs : EnsureCreate(p)
    \/ \E p \in Procs : EnsureInstall(p)
    \/ \E p \in Procs : RunInVenv(p)
    \/ \E p \in Procs : CallDirect(p)
    \/ \E p \in Procs : DirectDep(p)
    \/ \E p \in Procs : DirectSave(p)
    \/ \E p \in Procs : DirectRedirect(p)
    \/ \E p \in Procs : DirectExec(p)
    \/ \E p \in Procs : DirectRestore(p)
    \/ \E p \in Procs : Return(p)

Spec == Init /\ [][Next]_vars

SpecConc == InitConc /\ [][Next]_vars

\* the node layer alone: each request is a node's execute, up to its call of the core
NextNode ==
    \/ \E p \in Procs : NodeExecuteV1(p)
    \/ \E p \in Procs : NodeExecuteV3(p)

SpecNode == Init /\ [][NextNode]_vars

----------------------------------------------------------------------------
\* Properties

Done(p) == call[p].pc = "done"
Failed(p) == Done(p) /\ call[p].outcome.kind = "returned" /\ call[p].outcome.exit_code = 1

\* the child process ran to its end
ChildRan(p) ==
    /\ call[p].mode = "safe" /\ Done(p)
    /\ call[p].executed /\ call[p].fault \notin {"timeout", "crash"}

\* C1: neither run_code_safe nor run_code_direct lets a fault escape: every
\* finished call has returned a three-field outcome, and one that met a
\* failure of any category has exit_code = 1.
C1_NoFaultEscapes ==
    \A p \in Procs :
        Done(p) =>
            /\ call[p].outcome.kind = "returned"
            /\ call[p].fault # "none" => call[p].outcome.exit_code = 1

\* C2: once ensure_venv has returned a path for a fingerprint, a later
\* ensure_venv call for that fingerprint returns the same path in its first
\* step, creating nothing and installing nothing, whatever its dependency list.
C2_IdempotentReuse ==
    [][\A p \in Procs :
          ( /\ call[p].pc = "ensure_check"
            /\ call'[p].pc # "ensure_check"
            /\ VenvPath(call[p].venv_name) \in ensured )
          => /\ call'[p].pc = "run"
             /\ call'[p].venv_path = VenvPath(call[p].venv_name)
             /\ call'[p].venv_path \in ensured
             /\ ~call'[p].created
             /\ call'[p].attempts = <<>>
             /\ venvs' = venvs]_vars

\* a second request reuses an environment an earlier request fully installed
C2_Witness ==
    \E p \in Procs :
        /\ call[p].pc = "run" /\ call[p].ensure = "reused"
        /\ Len(call[p].deps) = 2
        /\ call[p].attempts = <<>> /\ ~call[p].created
        /\ Len(venvs[call[p].venv_name]) = 2
        /\ venvs[call[p].venv_name] # call[p].deps

\* C3: ensure_venv attempts the installs strictly in list order, and the first
\* failing install ends the call with an error: it is the last install the call
\* attempts, no path is returned and the request is over.
C3_ProvisionerFailFast ==
    \A p \in Procs :
        call[p].mode = "safe" =>
            LET a == call[p].attempts
            IN  /\ Len(a) <= Len(call[p].deps)
                /\ \A i \in 1..Len(a) : a[i].dep = call[p].deps[i]
                /\ \A i \in 1..Len(a) :
                       ~a[i].ok => /\ i = Len(a)
                                   /\ Done(p)
                                   /\ call[p].ensure = "raised"
                                   /\ call[p].venv_path = <<>>

\* the first of two installs failed and the second was never attempted
C3_Witness ==
    \E p \in Procs :
        /\ call[p].mode = "safe" /\ Done(p)
        /\ Len(call[p].deps) = 2
        /\ Len(call[p].attempts) = 1 /\ ~call[p].attempts[1].ok

\* C4 as claimed: every failure outcome of the core has a result text that
\* begins with "Error:".
C4_ErrorPrefixAlways ==
    \A p \in Procs :
        Failed(p) =>
            /\ call[p].outcome.result.s # <<>>
            /\ Head(call[p].outcome.result.s) = ErrPrefix

\* C4 as amended: every failure outcome has a non-empty diagnostic text as its
\* result; it begins with "Error: " except for a provisioning failure of
\* run_code_safe, which begins with "Venv creation error: ", and an install
\* failure of run_code_direct, which begins with "Error installing ".
C4_DiagnosticPrefix ==
    \A p \in Procs :
        Failed(p) =>
            /\ call[p].outcome.result.t = "str"
            /\ call[p].outcome.result.s # <<>>
            /\ Head(call[p].outcome.result.s) =
                   CASE call[p].fault = "provision" -> VenvErrPrefix
                     [] call[p].fault = "install"   -> InstallErrPrefix
                     [] OTHER                       -> ErrPrefix

\* user code raised in direct mode and the result reads "Error: boom"
C4_Witness ==
    \E p \in Procs :
        /\ Failed(p) /\ call[p].mode = "direct"
        /\ call[p].fault = "user_exception"
        /\ call[p].outcome.result.s = <<ErrPrefix, "boom">>

\* C5: on every exit path of run_code_in_venv both temp files it created are
\* gone afterwards unless a removal failed, and a removal failure is not
\* reported to the caller.
C5_CleanupGuaranteed ==
    \A p \in Procs :
        (Done(p) /\ call[p].files # {}) =>
            /\ call[p].unlink_failed = "none" =>
                   \A k \in call[p].files : <<p, k>> \notin tempfiles
            /\ call[p].unlink_failed # "none" => call[p].outcome.kind = "returned"

\* C6: under a serial host, when run_code_direct is over (returned or raised)
\* sys.stdout is the stream it was when the call started.
C6_StdoutRestored ==
    \A p \in Procs :
        (call[p].mode = "direct" /\ Done(p)) => sys_stdout = call[p].entry_stdout

\* user code printed and raised under redirection, and the stream is back
C6_Witness ==
    \E p \in Procs :
        /\ call[p].mode = "direct" /\ Done(p)
        /\ call[p].fault = "user_exception"
        /\ call[p].outcome.stdout # <<>>
        /\ sys_stdout = "orig"

\* C7: whatever the code and however its execution ends, the driver writes
\* exactly one JSON object to its standard output, with a string result and
\* exit_code = 0 exactly when the code completed without raising.
C7_DriverOneJsonLine ==
    \A p \in Procs :
        ChildRan(p) =>
            LET out == call[p].proc.stdout
            IN  /\ Len(out) = 1
                /\ out[1].kind = "json"
                /\ out[1].obj.result.t = "str"
                /\ out[1].obj.exit_code = (IF Exec(call[p].code).end = "ok" THEN 0 ELSE 1)

\* what a code prints, statement by statement
RECURSIVE PrintedBy(_)
PrintedBy(code) ==
    IF code = <<>> THEN <<>>
    ELSE (IF Head(code).op = "print" THEN Head(code).arg.s ELSE <<>>) \o PrintedBy(Tail(code))

OnlyPrintsAndBinds(code) == \A i \in 1..Len(code) : code[i].op \in {"print", "bind"}

\* C8: what the user code prints never reaches the child's real standard
\* output; for code that only prints and binds result the parent parses the
\* response and the outcome's stdout is exactly the printed text.
C8_ChannelIsolation ==
    \A p \in Procs :
        ChildRan(p) =>
            /\ \A i \in 1..Len(call[p].proc.stdout) : call[p].proc.stdout[i].kind = "json"
            /\ OnlyPrintsAndBinds(call[p].code) =>
                   /\ JsonLoads(call[p].proc.stdout).ok
                   /\ call[p].outcome.kind = "returned"
                   /\ call[p].outcome.exit_code = 0
                   /\ call[p].outcome.stdout = PrintedBy(call[p].code)

\* code that prints twice came back with both lines in the stdout field
C8_Witness ==
    \E p \in Procs :
        /\ ChildRan(p)
        /\ Len(call[p].code) = 2 /\ OnlyPrintsAndBinds(call[p].code)
        /\ call[p].outcome.stdout = <<"hi\n", "hi\n">>

\* C9: when ensure_venv fails inside run_code_safe the user code is not
\* executed, no temp file is created, and the outcome is a failure with empty
\* stdout whose result carries the error's text.
C9_ProvisioningFailure ==
    \A p \in Procs :
        (call[p].mode = "safe" /\ call[p].ensure = "raised") =>
            /\ Done(p)
            /\ ~call[p].executed
            /\ call[p].files = {}
            /\ \A k \in {"code", "inputs"} : <<p, k>> \notin tempfiles
            /\ call[p].outcome.kind = "returned"
            /\ call[p].outcome.exit_code = 1
            /\ call[p].outcome.stdout = <<>>
            /\ \E i \in 1..Len(call[p].outcome.result.s) :
                   call[p].outcome.result.s[i] = CalledProcessErrorText

\* the second install of a new environment failed
C9_Witness ==
    \E p \in Procs :
        /\ call[p].mode = "safe" /\ call[p].ensure = "raised"
        /\ Len(call[p].attempts) = 2
        /\ call[p].outcome.exit_code = 1

\* C10: in run_code_direct the first dependency whose install fails ends the
\* request with a failure outcome naming it: it is the last dependency looked
\* up or installed, the user code is not executed, and stdout is empty.
C10_DirectFailFast ==
    \A p \in Procs :
        call[p].mode = "direct" =>
            LET a == call[p].attempts
                n == Len(call[p].probes)
            IN  \A i \in 1..Len(a) :
                    ~a[i].ok =>
                        /\ i = Len(a)
                        /\ Done(p)
                        /\ a[i].dep = call[p].deps[n]
                        /\ \A j \in 1..n : call[p].probes[j].dep = call[p].deps[j]
                        /\ ~call[p].executed
                        /\ call[p].outcome.kind = "returned"
                        /\ call[p].outcome.exit_code = 1
                        /\ call[p].outcome.stdout = <<>>
                        /\ SubSeq(call[p].outcome.result.s, 1, 1 + Len(a[i].dep))
                               = <<InstallErrPrefix>> \o a[i].dep

\* the first of two dependencies failed to install; the second was not looked up
C10_Witness ==
    \E p \in Procs :
        /\ call[p].mode = "direct" /\ Done(p)
        /\ Len(call[p].deps) = 2
        /\ Len(call[p].probes) = 1
        /\ Len(call[p].attempts) = 1 /\ ~call[p].attempts[1].ok

\* the first statement of a code that ends it early (raise or sys.exit), or 0
FirstStop(code) ==
    LET stops == {i \in 1..Len(code) : code[i].op \in {"raise", "exit"}}
    IN  IF stops = {} THEN 0 ELSE CHOOSE i \in stops : \A j \in stops : i <= j

\* C11: when the code run by run_code_direct raises an exception with message
\* m after printing p, the outcome is ("Error: " + m, p, 1), p being exactly
\* the text printed before the raise.
C11_DirectUserFailure ==
    \A p \in Procs :
        (call[p].mode = "direct" /\ Done(p) /\ call[p].executed) =>
            LET code == call[p].code
                k == FirstStop(code)
            IN  (k # 0 /\ code[k].op = "raise") =>
                    call[p].outcome =
                        Returned(StrVal(<<ErrPrefix>> \o code[k].arg.s),
                                 PrintedBy(SubSeq(code, 1, k - 1)), 1)

\* a direct call whose code printed a line and then raised has returned
C11_Witness ==
    \E p \in Procs :
        /\ call[p].mode = "direct" /\ Done(p)
        /\ Len(call[p].code) = 2
        /\ call[p].code[1].op = "print" /\ call[p].code[2].op = "raise"
        /\ call[p].outcome.stdout = call[p].code[1].arg.s
        /\ call[p].outcome.exit_code = 1

\* the temp files of a call that are still on disk
FilesLeft(p) == {k \in {"code", "inputs"} : <<p, k>> \in tempfiles}

\* C12: when the child of run_code_in_venv does not finish within the 30
\* second budget, the outcome is the fixed failure ("Error: Execution timeout
\* (30s)", "", 1) whatever the code had printed or bound by then, and the
\* finally clause has removed the temp files (a file stays only where
\* os.unlink itself failed).
C12_Timeout ==
    \A p \in Procs :
        (call[p].mode = "safe" /\ Done(p) /\ call[p].fault = "timeout") =>
            /\ call[p].outcome = Returned(StrVal(<<ErrPrefix, TimeoutText>>), <<>>, 1)
            /\ call[p].unlink_failed = "none" => FilesLeft(p) = {}
            /\ call[p].unlink_failed = "inputs" => FilesLeft(p) = {"inputs"}

\* a child that printed and bound result ran out of time; the fixed failure
\* came back and no temp file is left
C12_Witness ==
    \E p \in Procs :
        /\ call[p].mode = "safe" /\ Done(p) /\ call[p].fault = "timeout"
        /\ call[p].code = <<[op |-> "print", arg |-> StrVal(<<"hi\n">>)],
                            [op |-> "bind", arg |-> IntVal(<<"2">>)]>>
        /\ call[p].files = {"code", "inputs"}
        /\ FilesLeft(p) = {}
        /\ call[p].outcome.result = StrVal(<<ErrPrefix, TimeoutText>>)

\* the child came to an end (it was started and was not timed out)
ChildEnded(p) ==
    /\ call[p].mode = "safe" /\ Done(p)
    /\ call[p].executed /\ call[p].fault # "timeout"

\* the child's standard output is one response line of the driver
IsResponse(chunks) == Len(chunks) = 1 /\ chunks[1].kind = "json"

\* C13: whenever the child's standard output is not a parseable JSON
\* response, run_code_in_venv returns exit_code = 1, a result that is
\* "Error: " followed by the child's stderr when that is non-empty and by the
\* parse-error message otherwise, and the child's raw standard output as stdout.
C13_TransportFailure ==
    \A p \in Procs :
        (ChildEnded(p) /\ ~IsResponse(call[p].proc.stdout)) =>
            LET proc == call[p].proc
                out == call[p].outcome
            IN  /\ out.kind = "returned"
                /\ out.exit_code = 1
                /\ proc.stderr # <<>> => out.result = StrVal(<<ErrPrefix>> \o proc.stderr)
                /\ proc.stderr = <<>> =>
                       /\ Len(out.result.s) = 2
                       /\ out.result.s[1] = ErrPrefix
                       /\ out.result.s[2] \in {JsonExpectingValue, JsonExtraData}
                /\ out.stdout = RawText(proc.stdout)

\* a child died with text on both streams: the diagnostic carries its stderr
\* and the captured stdout is the raw text it had written
C13_Witness ==
    \E p \in Procs :
        /\ ChildEnded(p)
        /\ call[p].proc.stderr # <<>>
        /\ call[p].proc.stdout # <<>>
        /\ ~IsResponse(call[p].proc.stdout)
        /\ call[p].outcome.result = StrVal(<<ErrPrefix>> \o call[p].proc.stderr)
        /\ call[p].outcome.stdout = <<"loading\n">>

\* two lists hold the same specifiers the same number of times
SameBag(a, b) ==
    /\ Len(a) = Len(b)
    /\ \A x \in DepUniverse :
         Cardinality({i \in 1..Len(a) : a[i] = x}) = Cardinality({i \in 1..Len(b) : b[i] = x})

\* C14: two dependency lists that are permutations of each other get the
\* same identifier from get_venv_name: the identifier a request computed is
\* the one every reordering of its list computes.
C14_OrderIndependence ==
    \A p \in Procs :
        call[p].pc = "ensure_check" =>
            \A d \in DepLists :
                SameBag(d, call[p].deps) => get_venv_name(d) = call[p].venv_name

\* a request came with two different specifiers in descending order, and its
\* identifier is that of the ascending list
C14_Witness ==
    \E p \in Procs :
        /\ call[p].pc = "ensure_check"
        /\ call[p].deps = <<SpecAb, SpecCd>>
        /\ StrLess(SpecCd, SpecAb)
        /\ call[p].venv_name = get_venv_name(<<SpecCd, SpecAb>>)

HexDigits == {"0", "1", "2", "3", "4", "5", "6", "7", "8", "9", "a", "b", "c", "d", "e", "f"}

\* C15: get_venv_name gives the default identifier for the empty list and for
\* no other list: a non-empty list gets the tag "PyIsolated_" followed by
\* eight hexadecimal digits, which is not the default identifier.
C15_ReservedDefault ==
    \A p \in Procs :
        call[p].mode = "safe" =>
            LET name == call[p].venv_name
            IN  /\ call[p].deps = <<>> => name = DefaultVenv
                /\ call[p].deps # <<>> =>
                       /\ name # DefaultVenv
                       /\ Len(name) = 9
                       /\ name[1] = "PyIsolated_"
                       /\ \A i \in 2..9 : name[i] \in HexDigits

\* a request without dependencies was given the default environment
C15_Witness ==
    \E p \in Procs :
        /\ call[p].mode = "safe" /\ call[p].pc = "run"
        /\ call[p].deps = <<>>
        /\ call[p].venv_name = <<"ComfyUI-PyIsolated">>
        /\ call[p].venv_path = <<VenvRoot, "ComfyUI-PyIsolated">>

\* strings, numbers, booleans, and lists and string-keyed maps of these
WireKinds == {"str", "int", "float", "bool", "list", "map"}

OnlyPrints(code) == \A i \in 1..Len(code) : code[i].op = "print"

\* C17: in both modes, when the user code completes without raising and
\* never binds the name result, the outcome's result is the empty string and
\* its exit_code is 0.
C17_DefaultResult ==
    \A p \in Procs :
        (/\ Done(p)
         /\ ChildRan(p) \/ (call[p].mode = "direct" /\ call[p].executed)
         /\ OnlyPrints(call[p].code)) =>
            /\ call[p].outcome.kind = "returned"
            /\ call[p].outcome.result = StrVal(<<>>)
            /\ call[p].outcome.exit_code = 0

\* a child whose code only printed answered with an empty result
C17_Witness ==
    \E p \in Procs :
        /\ ChildRan(p)
        /\ call[p].code = <<[op |-> "print", arg |-> StrVal(<<"hi\n">>)]>>
        /\ call[p].outcome = Returned(StrVal(<<>>), <<"hi\n">>, 0)

\* C20: the installed-package cache is empty at process start and only
\* grows: no step of any call, failing ones included, removes an element.
C20_CacheOnlyGrows ==
    /\ installed_packages = {}
    /\ [][installed_packages \subseteq installed_packages']_vars

\* a direct call cached its first dependency and failed on the second: the
\* cache still holds the first
C20_Witness ==
    \E p \in Procs :
        /\ call[p].mode = "direct" /\ Done(p) /\ call[p].fault = "install"
        /\ Len(call[p].probes) = 2
        /\ Lower(BaseName(call[p].deps[1])) \in installed_packages

\* C18: nothing but the existence check stands before the create step, and
\* nothing holds the two together: a call goes on to create exactly when the
\* directory is absent at the moment of its check, and a call past the check
\* runs the create step and then one install per dependency whatever other
\* calls have done to the directory meanwhile.  So two concurrent calls for a
\* never-seen fingerprint can both pass the check and both run the create and
\* install-all sequence against one directory (C18_Witness).
C18_ProvisioningRace ==
    [][\A p \in Procs :
          /\ (call[p].pc = "ensure_check" /\ call'[p].pc # "ensure_check") =>
                 (call'[p].pc = "ensure_create" <=> call[p].venv_name \notin DOMAIN venvs)
          /\ (call[p].pc = "ensure_create" /\ call'[p].pc # "ensure_create") =>
                 call'[p].created
          /\ (call[p].pc = "ensure_install" /\ call'[p] # call[p]) =>
                 /\ Len(call'[p].attempts) = Len(call[p].attempts) + 1
                 /\ call'[p].attempts[Len(call'[p].attempts)].dep = call[p].deps[call[p].idx]
      ]_vars

\* two calls in flight for one fingerprint of two dependencies each ran the
\* create step and both installs: the directory holds four installs
C18_Witness ==
    \E p, q \in Procs :
        /\ p # q
        /\ call[p].venv_name = call[q].venv_name
        /\ Len(call[p].deps) = 2 /\ Len(call[q].deps) = 2
        /\ call[p].created /\ call[q].created
        /\ call[p].ensure = "created" /\ call[q].ensure = "created"
        /\ Len(call[p].attempts) = 2 /\ Len(call[q].attempts) = 2
        /\ Len(venvs[call[p].venv_name]) = 4

\* C19: the finally clause of run_code_direct puts back the stream the call
\* saved at line 284, which is whatever sys.stdout was then, another call's
\* capture buffer included.  So there is an interleaving of two direct calls
\* after which both have returned and sys.stdout is one call's capture
\* buffer, not the original stream (C19_Witness).
C19_RedirectRace ==
    [][\A p \in Procs :
          /\ (call[p].pc = "direct_save" /\ call'[p].pc = "direct_redirect") =>
                 call'[p].original_stdout = sys_stdout
          /\ (call[p].pc = "direct_redirect" /\ call'[p].pc = "direct_exec") =>
                 sys_stdout' = p
          /\ (call[p].pc = "direct_restore" /\ call'[p].pc = "done") =>
                 sys_stdout' = call[p].original_stdout
      ]_vars

\* both direct calls have returned and sys.stdout is the capture buffer of
\* one of them
C19_Witness ==
    /\ \A p \in Procs : call[p].mode = "direct" /\ Done(p)
    /\ sys_stdout \in Procs
    /\ \A p \in Procs : call[p].entry_stdout = "orig"

\* the characters that end the package name in a requirement specifier
QualifierChars == {"<", ">", "=", "!", "~", "[", ";", " "}

\* the package a specifier names, in lower case: the text before its
\* version or extras qualifier
PackageName(dep) ==
    LET at == {i \in 1..Len(dep) : dep[i] \in QualifierChars}
    IN  Lower(IF at = {} THEN dep
              ELSE SubSeq(dep, 1, (CHOOSE i \in at : \A j \in at : i <= j) - 1))

\* C21: once a dependency's base name has been confirmed in this process,
\* every later run_code_direct call that lists a specifier with that base
\* name, in any letter case and with any version or extras qualifier, treats
\* it as satisfied: the import machinery is not probed and the installer is
\* not invoked.
C21_CacheShortCircuit ==
    [][\A p \in Procs :
          (call[p].pc = "direct_dep" /\ call'[p] # call[p]) =>
              LET dep == call[p].deps[call[p].idx]
                  earlier == {PackageName(call[p].deps[j]) : j \in 1..(call[p].idx - 1)}
              IN  (PackageName(dep) \in installed_packages /\ PackageName(dep) \notin earlier) =>
                      /\ call'[p].probes[Len(call'[p].probes)].how = "cached"
                      /\ call'[p].attempts = call[p].attempts
      ]_vars

\* a line the dependency format discards: empty after trimming, or beginning
\* with "#"
DiscardedLine(line) == Strip(line) = <<>> \/ Head(line) = "#"
PassedLine(line) == ~DiscardedLine(line)

\* C22: from the newline-separated dependencies text, exactly the lines that
\* are empty after trimming or that begin with "#" are discarded, and every
\* other line is passed to the core verbatim and in its original order.
C22_Verbatim ==
    \A p \in Procs :
        call[p].mode # "none" =>
            call[p].deps = SelectSeq(SplitLines(call[p].dependencies_text), PassedLine)

\* C22 as the code has it: exactly the lines that are empty after trimming or
\* whose trimmed form begins with "#" are discarded, and every other line is
\* passed to the core with its leading and trailing whitespace removed, in
\* its original order.
C22_Trimmed ==
    \A p \in Procs :
        call[p].mode # "none" =>
            LET lines == SplitLines(call[p].dependencies_text)
                kept == {i \in 1..Len(lines) :
                           Strip(lines[i]) # <<>> /\ Strip(lines[i])[1] # "#"}
                nth(k) == CHOOSE i \in kept : Cardinality({j \in kept : j < i}) = k - 1
            IN  /\ Len(call[p].deps) = Cardinality(kept)
                /\ \A k \in 1..Len(call[p].deps) :
                       call[p].deps[k] = Strip(lines[nth(k)])

\* the text " a", newline, "#": the comment went and the core was given "a"
C22_Witness ==
    \E p \in Procs :
        /\ call[p].mode = "safe"
        /\ call[p].dependencies_text = <<" ", "a", "\n", "#">>
        /\ call[p].deps = << <<"a">> >>

\* C23: an ensure_venv call that fails at an install step leaves the
\* directory it created on disk, holding only the dependencies installed
\* before the failure; a later call whose existence check finds a directory
\* for its fingerprint, complete or not, takes it as ready: it attempts no
\* install and goes on to execute the user code in it.
C23_IncompleteReuse ==
    [][\A p \in Procs :
          LET name == call[p].venv_name
          IN  /\ (call[p].pc = "ensure_install" /\ call'[p].pc = "done") =>
                     /\ name \in DOMAIN venvs'
                     /\ venvs'[name] = SubSeq(call[p].deps, 1, call[p].idx - 1)
              /\ (call[p].pc = "ensure_check" /\ call'[p] # call[p] /\ name \in DOMAIN venvs) =>
                     /\ call'[p].pc = "run"
                     /\ call'[p].ensure = "reused"
                     /\ call'[p].attempts = <<>> /\ ~call'[p].created
                     /\ call'[p].venv_path = <<VenvRoot>> \o name
                     /\ venvs' = venvs
      ]_vars

\* a request with two dependencies found a directory holding only the first,
\* installed nothing, and its user code ran to its end in that environment
C23_Witness ==
    \E p \in Procs :
        /\ ChildRan(p)
        /\ call[p].ensure = "reused"
        /\ Len(call[p].deps) = 2
        /\ venvs[call[p].venv_name] = <<call[p].deps[1]>>
        /\ call[p].attempts = <<>>
        /\ call[p].outcome.exit_code = 0

C25_CacheSoundness ==
    /\ [][\A n \in installed_packages' \ installed_packages :
            \E p \in Procs :
                /\ call[p].pc = "direct_dep"
                /\ LET dep == call[p].deps[call[p].idx]
                       tried == call'[p].attempts
                   IN  /\ n = Lower(BaseName(dep))
                       /\ \/ BaseName(dep) \in importable
                          \/ /\ Len(tried) = Len(call[p].attempts) + 1
                             /\ tried[Len(tried)] = [dep |-> dep, ok |-> TRUE]
         ]_vars
    /\ [][\A p \in Procs :
            LET tried == call'[p].attempts
            IN  (/\ call[p].pc = "direct_dep"
                 /\ Len(tried) = Len(call[p].attempts) + 1
                 /\ ~tried[Len(tried)].ok) =>
                    installed_packages' = installed_packages
         ]_vars
    /\ [](\A p \in Procs :
            (call[p].mode = "direct" /\ Done(p) /\ call[p].fault = "install") =>
                \A j \in 1..(Len(call[p].probes) - 1) :
                    Lower(BaseName(call[p].probes[j].dep)) \in installed_packages)

\* a direct call installed its first dependency and failed on the second:
\* the first is cached, the second is not
C25_Witness ==
    \E p \in Procs :
        /\ call[p].mode = "direct" /\ Done(p) /\ call[p].fault = "install"
        /\ Len(call[p].attempts) = 2
        /\ call[p].attempts[1].ok /\ ~call[p].attempts[2].ok
        /\ Lower(BaseName(call[p].deps[1])) \in installed_packages
        /\ Lower(BaseName(call[p].deps[2])) \notin installed_packages

====
